---- MODULE Spec2Model ----
(***************************************************************************)
(* Rocky: the Database Manager of src/src/db.rs as a state machine.        *)
(*                                                                         *)
(* Request threads run the public methods of DbManager (open, close,       *)
(* store, read, remove, contains) step by step; every step is one lock     *)
(* acquisition or one engine call of the source.  One Reclamation Worker   *)
(* per manager drains the queue of boxed closures.  The embedded engine    *)
(* (RocksDB) is modelled by what the manager can observe of it: the        *)
(* exclusive LOCK an open instance holds on its directory, its key/value   *)
(* contents, and the directory on disk.                                    *)
(***************************************************************************)
EXTENDS Integers, Sequences, FiniteSets, TLC

(* ------------------------------ bounds -------------------------------- *)

\* public-method invocations in one behaviour, by two request threads
MaxOps == 3
\* public-method invocations in one behaviour, by one request thread
SeqOps == 5
\* the latest reading of the clock, in milliseconds since the UNIX epoch
MaxTime == 2
\* how many times the manager is dropped and constructed again
MaxRestarts == 1
\* public-method invocations in one behaviour of the fair specification
LiveOps == 3
\* public-method invocations in one behaviour of the fair specification with drops
DrainOps == 3
\* open and close invocations in one behaviour of the specification of their races
RaceOps == 4

Threads == {"t1", "t2"}
\* the names open is called with: a tenant, the reserved name, the empty name
OpenNames == {"a", "root", ""}
\* the names store, read, remove and contains are called with
TenantNames == {"a"}
\* the names close is called with: a tenant and the empty name
CloseNames == {"a", ""}
Keys == {"k"}
\* what the system clock can show: a time before the UNIX epoch, which current_ms
\* cannot convert, and the milliseconds 1..MaxTime
BeforeEpoch == -1
Readings == {BeforeEpoch} \cup (1..MaxTime)
Payloads == {<<>>, <<7>>}
TTLs == {0, 1, 2}

\* what a caller may hand to the compaction filter: levels, keys, and values that
\* are records (live, expiring at any time up to past the clock's range, with and
\* without bytes after the record) and values that are not
Levels == {0, 1}
FilterKeys == {"k", "j", ""}
FilterTtls == 0..(MaxTime + 1)

(* -------------------------- program constants ------------------------- *)

ROOT_DB_NAME == "root"
\* RocksDbConfig::default().path
RootPath == "./db"
\* bincode's fixed-width little-endian layout of Data { ttl: u128, data: Vec<u8> }
TtlBytes == 16
LenBytes == 8
ByteBase == 256

(* ------------------------------ helpers ------------------------------- *)

EmptyMap == [x \in {} |-> <<>>]
MapPut(f, k, v) == [x \in (DOMAIN f) \cup {k} |-> IF x = k THEN v ELSE f[x]]
MapDel(f, k) == [x \in (DOMAIN f) \ {k} |-> f[x]]
Range(f) == {f[x] : x \in DOMAIN f}
SeqRange(s) == {s[i] : i \in 1..Len(s)}

(* --------------------------- config.rs -------------------------------- *)

\* DbConfig::db_path: format!("{}/{}", self.path(), db_name)
db_path(db_name) == RootPath \o "/" \o db_name

Paths == {db_path(n) : n \in OpenNames}

\* p is the directory dir or lies in the tree below it
InTree(p, dir) ==
    \/ p = dir
    \/ /\ Len(dir) < Len(p)
       /\ SubSeq(p, 1, Len(dir)) = dir
       /\ \/ SubSeq(dir, Len(dir), Len(dir)) = "/"
          \/ SubSeq(p, Len(dir) + 1, Len(dir) + 1) = "/"

(* -------------------------- conversion.rs ----------------------------- *)

RECURSIVE ToLE(_, _)
\* n as w little-endian bytes
ToLE(n, w) == IF w = 0 THEN <<>> ELSE <<n % ByteBase>> \o ToLE(n \div ByteBase, w - 1)

RECURSIVE FromLE(_)
FromLE(s) == IF s = <<>> THEN 0 ELSE Head(s) + ByteBase * FromLE(Tail(s))

\* IntoBytes<Data>::as_bytes: bincode::serialize(Data { ttl, data })
as_bytes(ttl, data) == ToLE(ttl, TtlBytes) \o ToLE(Len(data), LenBytes) \o data

\* FromBytes<Data>::as_struct: bincode::deserialize; ok = FALSE is the codec error
as_struct(bytes) ==
    LET hdr == TtlBytes + LenBytes
    IN  IF Len(bytes) < hdr
            THEN [ok |-> FALSE, ttl |-> 0, data |-> <<>>]
        ELSE LET n == FromLE(SubSeq(bytes, TtlBytes + 1, hdr))
             IN  IF Len(bytes) - hdr < n
                     THEN [ok |-> FALSE, ttl |-> 0, data |-> <<>>]
                 ELSE [ok |-> TRUE,
                       ttl |-> FromLE(SubSeq(bytes, 1, TtlBytes)),
                       data |-> SubSeq(bytes, hdr + 1, hdr + n)]

FilterValues ==
    {as_bytes(ttl, p) : ttl \in FilterTtls, p \in Payloads}
    \cup {as_bytes(1, <<7>>) \o <<9>>}
    \cup {<<>>, <<1>>,
          SubSeq(as_bytes(0, <<>>), 1, TtlBytes + LenBytes - 1),
          SubSeq(as_bytes(MaxTime + 1, <<7>>), 1, TtlBytes + LenBytes)}

(* ------------------------------ state --------------------------------- *)

VARIABLES
    now,      \* SystemTime::now(): what the wall clock shows, BeforeEpoch included
    mgr,      \* "up": a DbManager exists; "down": dropped; "opening": new() is
              \* building one; "aborted": new() panicked
    epoch,    \* which DbManager this is: 0 the first, 1 the one built after a drop
    dbs,      \* DbManager.dbs, the Catalogue: name -> Db handle
    guard,    \* the ShardedLock of dbs: [w |-> writer or "", r |-> set of readers]
    meta,     \* contents of root_db, the Meta-Database: name -> path
    fs,       \* per path: does the directory exist, the key -> bytes an engine open
              \* on it answers, and the keys whose files were unlinked under it
    nextId,   \* identity given to the next engine instance Db::new opens
    queue,    \* per manager: the mpsc channel of boxed closures
    wk,       \* per manager: the async-expire-thread
    th,       \* per request thread: where it is in which method, and its locals
    ret,      \* the result the last step returned to its caller, if it returned one
    pool,     \* the request threads the server runs
    budget,   \* invocations left
    pin,      \* history: the record a store left under (name, key), undisturbed since
    opened    \* history: names whose last Ok lifecycle call was open

vars == <<now, mgr, epoch, dbs, guard, meta, fs, nextId, queue, wk, th, ret,
          pool, budget, pin, opened>>

Epochs == 0..MaxRestarts

NoDb == [path |-> "", id |-> 0]
NoPin == [set |-> FALSE, name |-> "", key |-> "", data |-> <<>>, ttl |-> 0, ep |-> 0]
NoRet == [t |-> "", op |-> "", name |-> "", key |-> "", tag |-> "", data |-> <<>>,
          via |-> "", pin |-> NoPin, log |-> <<>>]
NoJob == [kind |-> "", db |-> NoDb, key |-> "", db_name |-> "", path |-> ""]
\* the async-expire-thread between two closures
\* err: the closure it ran last logged an error
Waiting == [st |-> "idle", job |-> NoJob, arg |-> "", err |-> FALSE]
NoDir == [exists |-> FALSE, kv |-> EmptyMap, unlinked |-> {}]
\* an existing directory in which no record is stored
EmptyDir == [exists |-> TRUE, kv |-> EmptyMap, unlinked |-> {}]
\* the records whose files are in the directory d
OnDisk(d) == [k \in DOMAIN d.kv \ d.unlinked |-> d.kv[k]]
\* DB::open with create_if_missing on the directory d: an engine on the records
\* whose files it finds, an empty engine if the directory is gone
Created(d) == IF d.exists THEN [EmptyDir EXCEPT !.kv = OnDisk(d)] ELSE EmptyDir
\* the engine on d puts v under k, and deletes k: the write goes to the files too
Put(d, k, v) == [d EXCEPT !.kv = MapPut(@, k, v), !.unlinked = @ \ {k}]
Del(d, k) == [d EXCEPT !.kv = MapDel(@, k), !.unlinked = @ \ {k}]
Idle == [op |-> "", pc |-> "idle", name |-> "", key |-> "", val |-> <<>>, ttl |-> 0,
         db |-> NoDb, pin |-> NoPin, log |-> <<>>]
FreeGuard == [w |-> "", r |-> {}]

\* a value returned to the caller
Returned(t, via, tag, data) ==
    [t |-> t, op |-> th[t].op, name |-> th[t].name, key |-> th[t].key, tag |-> tag,
     data |-> data, via |-> via, pin |-> th[t].pin, log |-> th[t].log]

(* ------------------------- the engine's LOCK -------------------------- *)

\* every Db value that is still owned by someone: the Catalogue, a local of a
\* method in flight, a closure in a queue, the closure the worker is running
LiveDbs ==
    Range(dbs)
    \cup {th[t].db : t \in Threads}
    \cup UNION {{queue[e][i].db : i \in 1..Len(queue[e])} : e \in Epochs}
    \cup {wk[e].job.db : e \in Epochs}

\* an engine whose tenant instances hold no LOCK
Locked_RootOnly(path) == mgr \in {"up", "opening"} /\ path = db_path(ROOT_DB_NAME)

\* the LOCK of the directory is held by an open instance of this process: a Db
\* somebody owns, or the root_db of the manager that serves or is being built
Locked(path) ==
    \/ \E d \in LiveDbs : d # NoDb /\ d.path = path
    \/ mgr \in {"up", "opening"} /\ path = db_path(ROOT_DB_NAME)

\* the answers DB::open can give on the directory: Err when its LOCK is held, and
\* Ok or Err, as the engine and the file system decide, when it is free
Opens(path) == IF Locked(path) THEN {FALSE} ELSE BOOLEAN


(* ------------------------------ db.rs --------------------------------- *)

\* conversion.rs current_ms on what the clock shows:
\* SystemTime::now().duration_since(UNIX_EPOCH)?.as_millis(), Err before the epoch
current_ms(clock) ==
    IF clock < 0 THEN [ok |-> FALSE, ms |-> 0] ELSE [ok |-> TRUE, ms |-> clock]

\* is_expired with <= for <: a record would expire in the millisecond of its ttl
is_expired_inclusive(ttl, clock) ==
    IF ttl = 0 THEN [ok |-> TRUE, val |-> FALSE]
    ELSE LET ms == current_ms(clock)
         IN  [ok |-> ms.ok, val |-> ms.ok /\ ttl <= ms.ms]

\* is_expired without its test for ttl 0: a record stored to stay would expire
is_expired_zero_expires(ttl, clock) ==
    LET ms == current_ms(clock)
    IN  [ok |-> ms.ok, val |-> ms.ok /\ ttl < ms.ms]

\* is_expired, with what the clock shows as its second argument: Ok(false) for
\* ttl 0, else Ok(ttl < current_ms()?); ok FALSE is the Err of current_ms
is_expired(ttl, clock) ==
    IF ttl = 0 THEN [ok |-> TRUE, val |-> FALSE]
    ELSE LET ms == current_ms(clock)
         IN  [ok |-> ms.ok, val |-> ms.ok /\ ttl < ms.ms]

\* compaction_filter(_level, _key, value), with what the clock shows as an
\* argument: CompactionDecision::Remove or ::Keep; Remove too when is_expired
\* answers Err
compaction_filter(level, key, value, clock) ==
    LET data == as_struct(value)
    IN  IF data.ok
            THEN LET expired == is_expired(data.ttl, clock)
                 IN  IF expired.ok
                         THEN IF expired.val THEN "Remove" ELSE "Keep"
                         ELSE "Remove"
            ELSE "Remove"

\* DbManager::new on a root directory where the databases `names` were opened by an
\* earlier run and hold no record: open_root_db, open_dbs, reg_receiver_thread.
\* This is manager number `first`, constructed at time `clock`; the workers of the
\* managers before it have run out of closures and ended.
Constructed(names, threads, ops, first, clock) ==
    /\ now = clock
    /\ mgr = "up"
    /\ epoch = first
    /\ dbs = [n \in names |-> [path |-> db_path(n), id |-> 1]]
    /\ guard = FreeGuard
    /\ meta = [n \in names |-> db_path(n)]
    /\ fs = [p \in Paths |-> IF \E n \in names \cup {ROOT_DB_NAME} : p = db_path(n)
                                 THEN EmptyDir
                                 ELSE NoDir]
    /\ nextId = Cardinality(names) + 1
    /\ queue = [e \in Epochs |-> <<>>]
    /\ wk = [e \in Epochs |-> [Waiting EXCEPT !.st = IF e < first THEN "term"
                                                       ELSE IF e = first THEN "idle"
                                                       ELSE "none"]]
    /\ th = [t \in Threads |-> Idle]
    /\ ret = NoRet
    /\ pool = threads
    /\ budget = ops
    /\ pin = NoPin
    /\ opened = names

\* the first start, on an empty root, serving with two request threads
Init == Constructed({}, Threads, MaxOps, 0, 1)
\* the first start, serving with one request thread
SeqInit == Constructed({}, {"t1"}, SeqOps, 0, 1)
\* a start, late, on a root that holds the database "a"
LiveInit == Constructed({"a"}, Threads, LiveOps, 0, MaxTime)

\* the method returns: its locals are gone, the caller has the result
Return(t, via, tag, data) ==
    /\ th' = [th EXCEPT ![t] = Idle]
    /\ ret' = Returned(t, via, tag, data)

Goto(t, pc) ==
    /\ th' = [th EXCEPT ![t].pc = pc]
    /\ ret' = NoRet

\* history: the writes a call has made to the Meta-Database, the Catalogue and the
\* queue, in the order it made them
ReturnLog(t, via, tag, data, what) ==
    /\ th' = [th EXCEPT ![t] = Idle]
    /\ ret' = [Returned(t, via, tag, data) EXCEPT !.log = Append(@, what)]

GotoLog(t, pc, what) ==
    /\ th' = [th EXCEPT ![t].pc = pc, ![t].log = Append(@, what)]
    /\ ret' = NoRet

\* history: a call that may change what is stored under (name, key) forgets the pin;
\* key "" stands for every key of the database
Disturbed(p, name, key) == p.set /\ p.name = name /\ (key = "" \/ p.key = key)
Forget(p, name, key) == IF Disturbed(p, name, key) THEN NoPin ELSE p

\* a request thread is handed a call
Invoke(t, op, name, key, val, ttl, disturbs) ==
    /\ mgr = "up"
    /\ t \in pool
    /\ budget > 0
    /\ th[t].pc = "idle"
    /\ budget' = budget - 1
    /\ pin' = IF disturbs THEN Forget(pin, name, key) ELSE pin
    /\ th' = [u \in Threads |->
                IF u = t
                    THEN [op |-> op, pc |-> op, name |-> name, key |-> key, val |-> val,
                          ttl |-> ttl, db |-> NoDb,
                          pin |-> IF op = "read" /\ Disturbed(pin, name, key)
                                      THEN pin ELSE NoPin,
                          log |-> <<>>]
                ELSE IF disturbs
                    THEN [th[u] EXCEPT !.pin = Forget(th[u].pin, name, key)]
                ELSE th[u]]
    /\ ret' = NoRet
    /\ UNCHANGED <<now, mgr, epoch, dbs, guard, meta, fs, nextId, queue, wk, pool,
                   opened>>

CallOpen(t) == \E n \in OpenNames : Invoke(t, "open", n, "", <<>>, 0, FALSE)
CallClose(t) == \E n \in CloseNames : Invoke(t, "close", n, "", <<>>, 0, TRUE)
CallStore(t) ==
    \E n \in TenantNames, k \in Keys, p \in Payloads, ttl \in TTLs :
        Invoke(t, "store", n, k, p, ttl, TRUE)
CallRead(t) == \E n \in TenantNames, k \in Keys : Invoke(t, "read", n, k, <<>>, 0, FALSE)
CallRemove(t) == \E n \in TenantNames, k \in Keys : Invoke(t, "remove", n, k, <<>>, 0, TRUE)
CallContains(t) == \E n \in TenantNames : Invoke(t, "contains", n, "", <<>>, 0, FALSE)

(* DbManager::contains *)

Contains(t) ==
    /\ th[t].pc = "contains"
    /\ guard.w = ""
    /\ Return(t, "contains", IF th[t].name \in DOMAIN dbs THEN "true" ELSE "false", <<>>)
    /\ UNCHANGED <<now, mgr, epoch, dbs, guard, meta, fs, nextId, queue, wk, pool, budget,
                   pin, opened>>

(* DbManager::open *)

\* open without its contains test
OpenContains_Unchecked(t) ==
    /\ th[t].pc = "open"
    /\ guard.w = ""
    /\ Goto(t, "o_put")
    /\ UNCHANGED <<now, mgr, epoch, dbs, guard, meta, fs, nextId, queue, wk, pool,
                   budget, pin, opened>>

\* if self.contains(&db_name) { Err(Validation) } else { ... }
OpenContains(t) ==
    /\ th[t].pc = "open"
    /\ guard.w = ""
    /\ IF th[t].name \in DOMAIN dbs
           THEN Return(t, "open", "Validation", <<>>)
           ELSE Goto(t, "o_put")
    /\ UNCHANGED <<now, mgr, epoch, dbs, guard, meta, fs, nextId, queue, wk, pool, budget,
                   pin, opened>>

\* open that goes on to the engine without writing the Meta-Database
OpenPut_Skipped(t) ==
    /\ th[t].pc = "o_put"
    /\ Goto(t, "o_new")
    /\ UNCHANGED <<now, mgr, epoch, dbs, guard, meta, fs, nextId, queue, wk, pool, budget,
                   pin, opened>>

\* self.root_db.put(&db_name, &path)?  ok: the engine's answer
OpenPut(t) ==
    /\ th[t].pc = "o_put"
    /\ \E ok \in BOOLEAN :
        IF ok
            THEN /\ meta' = MapPut(meta, th[t].name, db_path(th[t].name))
                 /\ fs' = [fs EXCEPT ![db_path(ROOT_DB_NAME)].unlinked = @ \ {th[t].name}]
                 /\ GotoLog(t, "o_new", "meta_put")
            ELSE /\ Return(t, "o_put", "Rocks", <<>>)
                 /\ UNCHANGED <<meta, fs>>
    /\ UNCHANGED <<now, mgr, epoch, dbs, guard, nextId, queue, wk, pool, budget, pin,
                   opened>>

\* an open that takes its Meta-Database entry back when the engine does not open
OpenNew_RollsBack(t) ==
    /\ th[t].pc = "o_new"
    /\ LET path == db_path(th[t].name)
       IN  \E ok \in Opens(path) :
               IF ok
                   THEN /\ th' = [th EXCEPT ![t].pc = "o_ins",
                                            ![t].db = [path |-> path, id |-> nextId]]
                        /\ ret' = NoRet
                        /\ nextId' = nextId + 1
                        /\ fs' = [fs EXCEPT ![path] = Created(@)]
                        /\ UNCHANGED meta
                   ELSE /\ Return(t, "o_new", "Rocks", <<>>)
                        /\ meta' = MapDel(meta, th[t].name)
                        /\ UNCHANGED <<fs, nextId>>
    /\ UNCHANGED <<now, mgr, epoch, dbs, guard, queue, wk, pool, budget, pin, opened>>

\* open_on_path: let db = Db::new(&path, ..)?  (create_if_missing)
\* ok: the answer of DB::open
OpenNew(t) ==
    /\ th[t].pc = "o_new"
    /\ LET path == db_path(th[t].name)
       IN  \E ok \in Opens(path) :
               IF ok
                   THEN /\ th' = [th EXCEPT ![t].pc = "o_ins",
                                            ![t].db = [path |-> path, id |-> nextId]]
                        /\ ret' = NoRet
                        /\ nextId' = nextId + 1
                        /\ fs' = [fs EXCEPT ![path] = Created(@)]
                   ELSE /\ Return(t, "o_new", "Rocks", <<>>)
                        /\ UNCHANGED <<fs, nextId>>
    /\ UNCHANGED <<now, mgr, epoch, dbs, guard, meta, queue, wk, pool, budget, pin, opened>>

\* open_on_path: self.w_lock().insert(db_name, db); Ok(())
OpenInsert(t) ==
    /\ th[t].pc = "o_ins"
    /\ guard = FreeGuard
    /\ dbs' = MapPut(dbs, th[t].name, th[t].db)
    /\ opened' = opened \cup {th[t].name}
    /\ ReturnLog(t, "o_ins", "Ok", <<>>, "insert")
    /\ UNCHANGED <<now, mgr, epoch, guard, meta, fs, nextId, queue, wk, pool, budget, pin>>

(* DbManager::close *)

\* close without its not_contains test
CloseContains_Unchecked(t) ==
    /\ th[t].pc = "close"
    /\ guard.w = ""
    /\ Goto(t, "c_evict")
    /\ UNCHANGED <<now, mgr, epoch, dbs, guard, meta, fs, nextId, queue, wk, pool,
                   budget, pin, opened>>

\* if self.not_contains(&db_name) { Err(Validation) } else { ... }
CloseContains(t) ==
    /\ th[t].pc = "close"
    /\ guard.w = ""
    /\ IF th[t].name \notin DOMAIN dbs
           THEN Return(t, "close", "Validation", <<>>)
           ELSE Goto(t, "c_evict")
    /\ UNCHANGED <<now, mgr, epoch, dbs, guard, meta, fs, nextId, queue, wk, pool, budget,
                   pin, opened>>

\* a close that takes a clone of the handle and leaves the binding in the Catalogue
CloseEvict_KeepsBinding(t) ==
    /\ th[t].pc = "c_evict"
    /\ guard = FreeGuard
    /\ IF th[t].name \in DOMAIN dbs
           THEN /\ guard' = [guard EXCEPT !.w = t]
                /\ th' = [th EXCEPT ![t].pc = "c_meta", ![t].db = dbs[th[t].name],
                                    ![t].log = Append(@, "evict")]
                /\ ret' = NoRet
                /\ UNCHANGED opened
           ELSE /\ Return(t, "c_evict", "Ok", <<>>)
                /\ opened' = opened \ {th[t].name}
                /\ UNCHANGED guard
    /\ UNCHANGED <<now, mgr, epoch, dbs, meta, fs, nextId, queue, wk, pool, budget, pin>>

\* if let Some(db) = self.w_lock().remove(&db_name) { ... }  Ok(())
\* the write guard is a temporary of the if-let: it lives to the end of its body
CloseEvict(t) ==
    /\ th[t].pc = "c_evict"
    /\ guard = FreeGuard
    /\ IF th[t].name \in DOMAIN dbs
           THEN /\ dbs' = MapDel(dbs, th[t].name)
                /\ guard' = [guard EXCEPT !.w = t]
                /\ th' = [th EXCEPT ![t].pc = "c_meta", ![t].db = dbs[th[t].name],
                                    ![t].log = Append(@, "evict")]
                /\ ret' = NoRet
                /\ UNCHANGED opened
           ELSE /\ Return(t, "c_evict", "Ok", <<>>)
                /\ opened' = opened \ {th[t].name}
                /\ UNCHANGED <<dbs, guard>>
    /\ UNCHANGED <<now, mgr, epoch, meta, fs, nextId, queue, wk, pool, budget, pin>>

\* close that sends the closure without deleting the name from the Meta-Database
CloseMeta_Skipped(t) ==
    /\ th[t].pc = "c_meta"
    /\ Goto(t, "c_send")
    /\ UNCHANGED <<now, mgr, epoch, dbs, guard, meta, fs, nextId, queue, wk, pool, budget,
                   pin, opened>>

\* close that leaks the write guard of the Catalogue when the delete fails
CloseMeta_LeaksGuard(t) ==
    /\ th[t].pc = "c_meta"
    /\ \E ok \in BOOLEAN :
        IF ok
            THEN /\ meta' = MapDel(meta, th[t].name)
                 /\ fs' = [fs EXCEPT ![db_path(ROOT_DB_NAME)].unlinked = @ \ {th[t].name}]
                 /\ GotoLog(t, "c_send", "meta_delete")
            ELSE /\ Return(t, "c_meta", "Rocks", <<>>)
                 /\ UNCHANGED <<meta, fs>>
    /\ UNCHANGED <<now, mgr, epoch, dbs, guard, nextId, queue, wk, pool, budget,
                   pin, opened>>

\* self.root_db.w_lock().delete(&db_name)?  ok: the engine's answer
CloseMeta(t) ==
    /\ th[t].pc = "c_meta"
    /\ \E ok \in BOOLEAN :
        IF ok
            THEN /\ meta' = MapDel(meta, th[t].name)
                 /\ fs' = [fs EXCEPT ![db_path(ROOT_DB_NAME)].unlinked = @ \ {th[t].name}]
                 /\ GotoLog(t, "c_send", "meta_delete")
                 /\ UNCHANGED guard
            ELSE /\ Return(t, "c_meta", "Rocks", <<>>)
                 /\ guard' = FreeGuard
                 /\ UNCHANGED <<meta, fs>>
    /\ UNCHANGED <<now, mgr, epoch, dbs, nextId, queue, wk, pool, budget, pin, opened>>

\* a close that sends its closure twice
CloseSend_Twice(t) ==
    /\ th[t].pc = "c_send"
    /\ LET job == [kind |-> "destroy", db |-> th[t].db, key |-> "",
                   db_name |-> th[t].name, path |-> db_path(th[t].name)]
       IN  queue' = [queue EXCEPT ![epoch] = Append(Append(@, job), job)]
    /\ guard' = FreeGuard
    /\ opened' = opened \ {th[t].name}
    /\ ReturnLog(t, "c_send", "Ok", <<>>, "enqueue")
    /\ UNCHANGED <<now, mgr, epoch, dbs, meta, fs, nextId, wk, pool, budget, pin>>

\* try_close_async(db, db_name, path): the closure is sent, the guard dropped
CloseSend(t) ==
    /\ th[t].pc = "c_send"
    /\ queue' = [queue EXCEPT ![epoch] =
                    Append(@, [kind |-> "destroy", db |-> th[t].db, key |-> "",
                               db_name |-> th[t].name,
                               path |-> db_path(th[t].name)])]
    /\ guard' = FreeGuard
    /\ opened' = opened \ {th[t].name}
    /\ ReturnLog(t, "c_send", "Ok", <<>>, "enqueue")
    /\ UNCHANGED <<now, mgr, epoch, dbs, meta, fs, nextId, wk, pool, budget, pin>>


(* DbManager::store *)

\* let bytes = Data::new(ttl, val.to_vec()).as_bytes()?; match self.w_lock().get(db_name)
StoreLookup(t) ==
    /\ th[t].pc = "store"
    /\ guard = FreeGuard
    /\ IF th[t].name \in DOMAIN dbs
           THEN /\ guard' = [guard EXCEPT !.w = t]
                /\ Goto(t, "s_put")
           ELSE /\ Return(t, "store", "Validation", <<>>)
                /\ UNCHANGED guard
    /\ UNCHANGED <<now, mgr, epoch, dbs, meta, fs, nextId, queue, wk, pool, budget, pin,
                   opened>>

\* no other call that writes (name, key) or closes name is in flight
Alone(t) ==
    \A u \in Threads \ {t} :
        ~ (/\ th[u].op \in {"store", "remove", "close"}
           /\ th[u].name = th[t].name
           /\ th[u].key \in {"", th[t].key})

\* Some(db) => db.put(&key, bytes)  ok: the engine's answer
StorePut(t) ==
    /\ th[t].pc = "s_put"
    /\ \E ok \in BOOLEAN :
        IF ok
            THEN /\ LET path == dbs[th[t].name].path
                    IN  fs' = [fs EXCEPT ![path] =
                                  Put(@, th[t].key, as_bytes(th[t].ttl, th[t].val))]
                 /\ pin' = IF Alone(t)
                               THEN [set |-> TRUE, name |-> th[t].name,
                                     key |-> th[t].key, data |-> th[t].val,
                                     ttl |-> th[t].ttl, ep |-> epoch]
                               ELSE pin
                 /\ Return(t, "s_put", "Ok", <<>>)
            ELSE /\ Return(t, "s_put", "Rocks", <<>>)
                 /\ UNCHANGED <<fs, pin>>
    /\ guard' = FreeGuard
    /\ UNCHANGED <<now, mgr, epoch, dbs, meta, nextId, queue, wk, pool, budget, opened>>

(* DbManager::remove *)

\* match self.w_lock().get(db_name)
RemoveLookup(t) ==
    /\ th[t].pc = "remove"
    /\ guard = FreeGuard
    /\ IF th[t].name \in DOMAIN dbs
           THEN /\ guard' = [guard EXCEPT !.w = t]
                /\ Goto(t, "m_del")
           ELSE /\ Return(t, "remove", "Validation", <<>>)
                /\ UNCHANGED guard
    /\ UNCHANGED <<now, mgr, epoch, dbs, meta, fs, nextId, queue, wk, pool, budget, pin,
                   opened>>

\* Some(db) => db.remove(&key)  ok: the engine's answer
RemoveDelete(t) ==
    /\ th[t].pc = "m_del"
    /\ \E ok \in BOOLEAN :
        IF ok
            THEN /\ LET path == dbs[th[t].name].path
                    IN  fs' = [fs EXCEPT ![path] = Del(@, th[t].key)]
                 /\ Return(t, "m_del", "Ok", <<>>)
            ELSE /\ Return(t, "m_del", "Rocks", <<>>)
                 /\ UNCHANGED fs
    /\ guard' = FreeGuard
    /\ UNCHANGED <<now, mgr, epoch, dbs, meta, nextId, queue, wk, pool, budget, pin, opened>>

(* DbManager::read *)

\* read that answers None for a name the Catalogue does not hold
ReadLookup_NoneOnAbsent(t) ==
    /\ th[t].pc = "read"
    /\ guard.w = ""
    /\ IF th[t].name \in DOMAIN dbs
           THEN /\ guard' = [guard EXCEPT !.r = @ \cup {t}]
                /\ Goto(t, "r_get")
           ELSE /\ Return(t, "read", "None", <<>>)
                /\ UNCHANGED guard
    /\ UNCHANGED <<now, mgr, epoch, dbs, meta, fs, nextId, queue, wk, pool, budget,
                   pin, opened>>

\* match self.r_lock().get(db_name): the read guard lives to the end of the match
ReadLookup(t) ==
    /\ th[t].pc = "read"
    /\ guard.w = ""
    /\ IF th[t].name \in DOMAIN dbs
           THEN /\ guard' = [guard EXCEPT !.r = @ \cup {t}]
                /\ Goto(t, "r_get")
           ELSE /\ Return(t, "read", "Validation", <<>>)
                /\ UNCHANGED guard
    /\ UNCHANGED <<now, mgr, epoch, dbs, meta, fs, nextId, queue, wk, pool, budget, pin,
                   opened>>

\* if let Some(bytes) = db.get(&key)?  ok: the engine's answer; the bytes are kept
\* in a local, and the read guard of the Catalogue is held until the match ends
ReadGet(t) ==
    /\ th[t].pc = "r_get"
    /\ LET kv == fs[dbs[th[t].name].path].kv
       IN  \E ok \in BOOLEAN :
               IF ~ ok
                   THEN /\ Return(t, "r_get", "Rocks", <<>>)
                        /\ guard' = [guard EXCEPT !.r = @ \ {t}]
               ELSE IF th[t].key \notin DOMAIN kv
                   THEN /\ Return(t, "r_get", "None", <<>>)
                        /\ guard' = [guard EXCEPT !.r = @ \ {t}]
                   ELSE /\ th' = [th EXCEPT ![t].pc = "r_exp", ![t].val = kv[th[t].key]]
                        /\ ret' = NoRet
                        /\ UNCHANGED guard
    /\ UNCHANGED <<now, mgr, epoch, dbs, meta, fs, nextId, queue, wk, pool, budget, pin,
                   opened>>

\* a read that deletes the expired record itself instead of sending a closure
ReadExpire_DeletesInline(t) ==
    /\ th[t].pc = "r_exp"
    /\ LET db == dbs[th[t].name]
           data == as_struct(th[t].val)
           expired == is_expired(data.ttl, now)
       IN  IF ~ data.ok
               THEN /\ Return(t, "r_exp", "Serialization", <<>>)
                    /\ UNCHANGED fs
           ELSE IF ~ expired.ok
               THEN /\ Return(t, "r_exp", "Conversion", <<>>)
                    /\ UNCHANGED fs
           ELSE IF expired.val
               THEN /\ fs' = [fs EXCEPT ![db.path] = Del(@, th[t].key)]
                    /\ Return(t, "expire", "None", <<>>)
               ELSE /\ Return(t, "r_exp", "Some", data.data)
                    /\ UNCHANGED fs
    /\ guard' = [guard EXCEPT !.r = @ \ {t}]
    /\ UNCHANGED <<now, mgr, epoch, dbs, meta, nextId, queue, wk, pool, budget, pin,
                   opened>>

\* bytes.as_struct()?, is_expired(data.ttl)? (Err(Conversion) when the clock
\* cannot be read), and on an expired record self.expire(db, key): the closure owns
\* a clone of the handle and the key
ReadExpire(t) ==
    /\ th[t].pc = "r_exp"
    /\ LET db == dbs[th[t].name]
           data == as_struct(th[t].val)
           expired == is_expired(data.ttl, now)
       IN  IF ~ data.ok
               THEN /\ Return(t, "r_exp", "Serialization", <<>>)
                    /\ UNCHANGED queue
           ELSE IF ~ expired.ok
               THEN /\ Return(t, "r_exp", "Conversion", <<>>)
                    /\ UNCHANGED queue
           ELSE IF expired.val
               THEN /\ queue' = [queue EXCEPT ![epoch] =
                                    Append(@, [kind |-> "expire", db |-> db,
                                               key |-> th[t].key, db_name |-> "",
                                               path |-> ""])]
                    /\ Return(t, "expire", "None", <<>>)
               ELSE /\ Return(t, "r_exp", "Some", data.data)
                    /\ UNCHANGED queue
    /\ guard' = [guard EXCEPT !.r = @ \ {t}]
    /\ UNCHANGED <<now, mgr, epoch, dbs, meta, fs, nextId, wk, pool, budget, pin, opened>>

(* DbManager::reg_receiver_thread: for boxed in rx { boxed.invoke() } *)

\* an expire closure that is run but deletes nothing
RunExpire_KeepsKey(e) ==
    /\ wk[e].st = "idle"
    /\ queue[e] # <<>>
    /\ Head(queue[e]).kind = "expire"
    /\ queue' = [queue EXCEPT ![e] = Tail(@)]
    /\ wk' = [wk EXCEPT ![e].err = FALSE]
    /\ ret' = NoRet
    /\ UNCHANGED <<now, mgr, epoch, dbs, guard, meta, fs, nextId, th, pool, budget, pin,
                   opened>>

\* the closure of expire: db.w_lock().delete(&key); the clone is dropped with it
RunExpire(e) ==
    /\ wk[e].st = "idle"
    /\ queue[e] # <<>>
    /\ Head(queue[e]).kind = "expire"
    /\ LET job == Head(queue[e])
       IN  fs' = [fs EXCEPT ![job.db.path] = Del(@, job.key)]
    /\ queue' = [queue EXCEPT ![e] = Tail(@)]
    /\ wk' = [wk EXCEPT ![e].err = FALSE]
    /\ ret' = NoRet
    /\ UNCHANGED <<now, mgr, epoch, dbs, guard, meta, nextId, th, pool, budget, pin,
                   opened>>

\* a worker that ends when a delete fails
RunExpireFails_StopsWorker(e) ==
    /\ wk[e].st = "idle"
    /\ queue[e] # <<>>
    /\ Head(queue[e]).kind = "expire"
    /\ queue' = [queue EXCEPT ![e] = Tail(@)]
    /\ wk' = [wk EXCEPT ![e].st = "term", ![e].err = TRUE]
    /\ ret' = NoRet
    /\ UNCHANGED <<now, mgr, epoch, dbs, guard, meta, fs, nextId, th, pool, budget, pin,
                   opened>>

\* the closure of expire when the engine refuses the delete:
\* if let Err(e) = db.w_lock().delete(&key) { error!(..) }
RunExpireFails(e) ==
    /\ wk[e].st = "idle"
    /\ queue[e] # <<>>
    /\ Head(queue[e]).kind = "expire"
    /\ queue' = [queue EXCEPT ![e] = Tail(@)]
    /\ wk' = [wk EXCEPT ![e].err = TRUE]
    /\ ret' = NoRet
    /\ UNCHANGED <<now, mgr, epoch, dbs, guard, meta, fs, nextId, th, pool, budget, pin,
                   opened>>

\* the closure of try_close_async, first half: match db.close(&db_name), which is
\* DB::destroy(&Options::default(), db_name): the engine is asked to destroy what it
\* finds at arg, and refuses a directory whose LOCK is held; ok is its answer
RunDestroy(e) ==
    /\ wk[e].st = "idle"
    /\ queue[e] # <<>>
    /\ Head(queue[e]).kind = "destroy"
    /\ LET job == Head(queue[e])
           arg == job.db_name
       IN  \E ok \in (IF Locked(arg) THEN {FALSE} ELSE BOOLEAN) :
               wk' = [wk EXCEPT ![e] = IF ok THEN [st |-> "rm", job |-> job, arg |-> arg,
                                                   err |-> FALSE]
                                             ELSE [Waiting EXCEPT !.err = TRUE]]
    /\ queue' = [queue EXCEPT ![e] = Tail(@)]
    /\ ret' = NoRet
    /\ UNCHANGED <<now, mgr, epoch, dbs, guard, meta, fs, nextId, th, pool, budget, pin,
                   opened>>

\* the handles owned by someone other than the closure the worker of e is running
OtherDbs(e) ==
    Range(dbs)
    \cup {th[t].db : t \in Threads}
    \cup UNION {{queue[f][i].db : i \in 1..Len(queue[f])} : f \in Epochs}
    \cup {wk[f].job.db : f \in Epochs \ {e}}

\* the keys of the records an engine has in the directory p: the names of the
\* Meta-Database in the directory of the root database
RecordsAt(p) == IF p = db_path(ROOT_DB_NAME) THEN DOMAIN meta ELSE DOMAIN fs[p].kv

\* somebody other than the closure the worker of e is running holds an engine
\* open on the directory p
HeldOpen(e, p) ==
    \/ \E d \in OtherDbs(e) : d.path = p
    \/ mgr \in {"up", "opening"} /\ p = db_path(ROOT_DB_NAME)

\* what fs::remove_dir_all leaves of the directory p when it fails: it unlinks the
\* files and the directories below its path one by one and its path last, and
\* stops at the first error.  A directory outside the tree is as it was; one in the
\* tree has lost the files of none, some or all of its records, whoever holds it
\* open, or, below the path, is gone.  An engine that is open goes on answering
\* from what it has; of a directory nobody holds, what is left is what a later
\* DB::open finds
Leftovers(e, p) ==
    IF ~ InTree(p, wk[e].job.path) THEN {fs[p]}
    ELSE {IF HeldOpen(e, p) \/ p = db_path(ROOT_DB_NAME)
              THEN [fs[p] EXCEPT !.unlinked = @ \cup L]
              ELSE [fs[p] EXCEPT !.kv = OnDisk([fs[p] EXCEPT !.unlinked = @ \cup L]),
                                 !.unlinked = {}]
            : L \in SUBSET RecordsAt(p)}
         \cup (IF p = wk[e].job.path THEN {}
               ELSE IF HeldOpen(e, p) THEN {[fs[p] EXCEPT !.exists = FALSE]}
               ELSE {NoDir})

\* second half: Ok(_) => remove_files(path), fs::remove_dir_all.  Ok: the directory
\* and the tree below it are unlinked; an engine somebody still holds open goes on
\* answering from what it has, with no directory.  Err: the error is logged, with
\* none, some or all of the tree below the path unlinked.  Then the closure and the
\* handle it owns are dropped
RunRemoveFiles(e) ==
    /\ wk[e].st = "rm"
    /\ \E ok \in BOOLEAN :
        /\ IF ok
               THEN fs' = [p \in Paths |->
                             IF ~ InTree(p, wk[e].job.path) THEN fs[p]
                             ELSE IF HeldOpen(e, p)
                                 THEN [fs[p] EXCEPT !.exists = FALSE]
                             ELSE NoDir]
               ELSE \E left \in [Paths -> UNION {Leftovers(e, p) : p \in Paths}] :
                        /\ \A p \in Paths : left[p] \in Leftovers(e, p)
                        /\ fs' = left
        /\ wk' = [wk EXCEPT ![e] = [Waiting EXCEPT !.err = ~ ok]]
    /\ ret' = NoRet
    /\ UNCHANGED <<now, mgr, epoch, dbs, guard, meta, nextId, queue, th, pool, budget, pin,
                   opened>>

\* a worker that ends as soon as the sender is dropped, leaving closures unrun
WorkerExit_DropsJobs(e) ==
    /\ wk[e].st = "idle"
    /\ ~ (mgr = "up" /\ epoch = e)
    /\ wk' = [wk EXCEPT ![e].st = "term"]
    /\ ret' = NoRet
    /\ UNCHANGED <<now, mgr, epoch, dbs, guard, meta, fs, nextId, queue, wk, th, pool,
                   budget, pin, opened>>

\* the for loop over rx ends once the sender is dropped and the channel is empty
WorkerExit(e) ==
    /\ wk[e].st = "idle"
    /\ queue[e] = <<>>
    /\ ~ (mgr = "up" /\ epoch = e)
    /\ wk' = [wk EXCEPT ![e].st = "term"]
    /\ ret' = NoRet
    /\ UNCHANGED <<now, mgr, epoch, dbs, guard, meta, fs, nextId, queue, th, pool, budget,
                   pin, opened>>

(* compaction_filter, called with a value as the tests of db.rs call it: no      *)
(* engine the manager opens is given the filter, and no stored record is touched *)

\* compaction_filter(level, key, value) on the arguments the caller holds
CallCompactionFilter(t) ==
    /\ th[t].pc = "filter"
    /\ \E level \in Levels :
           Return(t, "filter", compaction_filter(level, th[t].key, th[t].val, now), th[t].val)
    /\ UNCHANGED <<now, mgr, epoch, dbs, guard, meta, fs, nextId, queue, wk, pool, budget,
                   pin, opened>>

(* conversion.rs: current_ms *)

\* SystemTime is the wall clock: it can be set, forwards and backwards, and to a
\* time before the epoch
Tick ==
    /\ \E reading \in Readings \ {now} : now' = reading
    /\ ret' = NoRet
    /\ UNCHANGED <<mgr, epoch, dbs, guard, meta, fs, nextId, queue, wk, th, pool, budget,
                   pin, opened>>

(* the DbManager is dropped, and DbManager::new builds another on the same root *)

DropManager ==
    /\ mgr = "up"
    /\ epoch < MaxRestarts
    /\ \A t \in Threads : th[t].pc = "idle"
    /\ mgr' = "down"
    /\ dbs' = EmptyMap
    /\ ret' = NoRet
    /\ UNCHANGED <<now, epoch, guard, meta, fs, nextId, queue, wk, th, pool, budget, pin,
                   opened>>

\* RocksDB iterates the Meta-Database in byte order of the keys
NameOrder == <<"", "a", "root">>

\* what open_root_db finds: the entries whose files are in the directory of the
\* root database; create_if_missing makes an empty Meta-Database where it is gone
open_root_db ==
    LET d == fs[db_path(ROOT_DB_NAME)]
    IN  IF d.exists THEN [n \in DOMAIN meta \ d.unlinked |-> meta[n]] ELSE EmptyMap

\* the entries of the Meta-Database the iterator of open_dbs has not come to: it
\* goes in byte order, every entry it has passed is in the Catalogue, and nobody
\* writes the Meta-Database while the manager is being built
Pending == SelectSeq(NameOrder, LAMBDA n : n \in DOMAIN meta /\ n \notin DOMAIN dbs)

\* DbManager::new, up to the iterator of open_dbs: open_root_db(&db_cfg)?, the
\* channel, the DbManager with an empty Catalogue.  ok: the engine's answer to the
\* open of the root database; on Err nothing is built
NewRoot ==
    /\ mgr = "down"
    /\ \E ok \in BOOLEAN :
        IF ok
            THEN /\ mgr' = "opening"
                 /\ epoch' = epoch + 1
                 /\ meta' = open_root_db
                 /\ fs' = [fs EXCEPT ![db_path(ROOT_DB_NAME)] = Created(@)]
                 /\ ret' = NoRet
            ELSE /\ ret' = [NoRet EXCEPT !.op = "new", !.tag = "Rocks"]
                 /\ UNCHANGED <<mgr, epoch, meta, fs>>
    /\ UNCHANGED <<now, dbs, guard, nextId, queue, wk, th, pool, budget, pin, opened>>

\* open_dbs, one turn of its for_each: open_on_path(name, path).expect("Failed to
\* open db").  ok: the answer of DB::open; on Err new() panics, and the root_db and
\* the handles opened so far are dropped
open_dbs ==
    /\ mgr = "opening"
    /\ Pending # <<>>
    /\ LET name == Head(Pending)
           path == meta[name]
       IN  \E ok \in Opens(path) :
               IF ok
                   THEN /\ dbs' = MapPut(dbs, name, [path |-> path, id |-> nextId])
                        /\ nextId' = nextId + 1
                        /\ fs' = [fs EXCEPT ![path] = Created(@)]
                        /\ ret' = NoRet
                        /\ UNCHANGED mgr
                   ELSE /\ mgr' = "aborted"
                        /\ dbs' = EmptyMap
                        /\ ret' = [NoRet EXCEPT !.op = "new", !.tag = "Panic"]
                        /\ UNCHANGED <<nextId, fs>>
    /\ UNCHANGED <<now, epoch, guard, meta, queue, wk, th, pool, budget, pin, opened>>

\* reg_receiver_thread(rx): thread::Builder .spawn(..).expect("Failed to register
\* receiver thread"); then Ok(db_manager).  ok: the answer of the spawn; on Err
\* new() panics, and the root_db and the Catalogue with its handles are dropped
reg_receiver_thread ==
    /\ mgr = "opening"
    /\ Pending = <<>>
    /\ \E ok \in BOOLEAN :
        IF ok
            THEN /\ mgr' = "up"
                 /\ wk' = [wk EXCEPT ![epoch].st = "idle"]
                 /\ ret' = [NoRet EXCEPT !.op = "new", !.tag = "Ok"]
                 /\ UNCHANGED dbs
            ELSE /\ mgr' = "aborted"
                 /\ dbs' = EmptyMap
                 /\ ret' = [NoRet EXCEPT !.op = "new", !.tag = "Panic"]
                 /\ UNCHANGED wk
    /\ UNCHANGED <<now, epoch, guard, meta, fs, nextId, queue, th, pool, budget, pin,
                   opened>>

\* DbManager::new: its engine calls one after the other, with nothing that holds
\* back the async-expire-thread of a manager dropped before
NewManager ==
    \/ NewRoot
    \/ open_dbs
    \/ reg_receiver_thread

(* --------------------------- specification ---------------------------- *)

Request(t) ==
    \/ CallOpen(t)
    \/ CallClose(t)
    \/ CallStore(t)
    \/ CallRead(t)
    \/ CallRemove(t)
    \/ CallContains(t)

Step(t) ==
    \/ Contains(t)
    \/ OpenContains(t)
    \/ OpenPut(t)
    \/ OpenNew(t)
    \/ OpenInsert(t)
    \/ CloseContains(t)
    \/ CloseEvict(t)
    \/ CloseMeta(t)
    \/ CloseSend(t)
    \/ StoreLookup(t)
    \/ StorePut(t)
    \/ RemoveLookup(t)
    \/ RemoveDelete(t)
    \/ ReadLookup(t)
    \/ ReadGet(t)
    \/ ReadExpire(t)

\* boxed.invoke()
Reclaim(e) ==
    \/ RunExpire(e)
    \/ RunExpireFails(e)
    \/ RunDestroy(e)
    \/ RunRemoveFiles(e)

Worker(e) ==
    \/ Reclaim(e)
    \/ WorkerExit(e)

Next ==
    \/ \E t \in Threads : Request(t)
    \/ \E t \in Threads : Step(t)
    \/ \E e \in Epochs : Worker(e)
    \/ Tick
    \/ DropManager
    \/ NewManager

Spec == Init /\ [][Next]_vars

\* a manager on a root that holds the database "a", and a caller about to hand the
\* compaction filter a key and a value, as the tests of db.rs do
FilterInit ==
    /\ now = 1
    /\ mgr = "up"
    /\ epoch = 0
    /\ dbs = [n \in {"a"} |-> [path |-> db_path(n), id |-> 1]]
    /\ guard = FreeGuard
    /\ meta = [n \in {"a"} |-> db_path(n)]
    /\ fs = [p \in Paths |-> IF p \in {db_path("a"), db_path(ROOT_DB_NAME)}
                                 THEN EmptyDir
                                 ELSE NoDir]
    /\ nextId = 2
    /\ queue = [e \in Epochs |-> <<>>]
    /\ wk = [e \in Epochs |-> [Waiting EXCEPT !.st = IF e = 0 THEN "idle" ELSE "none"]]
    /\ \E key \in FilterKeys, value \in FilterValues :
           th = [t \in Threads |->
                   IF t = "t1"
                       THEN [Idle EXCEPT !.op = "compaction_filter", !.pc = "filter",
                                         !.key = key, !.val = value]
                       ELSE Idle]
    /\ ret = NoRet
    /\ pool = {}
    /\ budget = 0
    /\ pin = NoPin
    /\ opened = {"a"}

FilterNext ==
    \/ \E t \in Threads : CallCompactionFilter(t)
    \/ Tick

FilterSpec == FilterInit /\ [][FilterNext]_vars

\* one caller and the manager of the first start, which is not dropped: its request
\* thread, its worker and the clock
SeqNext ==
    \/ \E t \in Threads : Request(t)
    \/ \E t \in Threads : Step(t)
    \/ \E e \in Epochs : Reclaim(e)
    \/ Tick

SeqSpec == SeqInit /\ [][SeqNext]_vars

\* one manager serving, over a stretch in which it is not dropped and the clock
\* shows the same millisecond
LiveNext ==
    \/ \E t \in Threads : Request(t)
    \/ \E t \in Threads : Step(t)
    \/ \E e \in Epochs : Reclaim(e)

\* the operating system runs every request thread that can take a step, and the
\* async-expire-thread; nothing obliges a caller to call
Fairness ==
    /\ \A t \in Threads : WF_vars(Step(t))
    /\ \A e \in Epochs : WF_vars(Reclaim(e))

LiveSpec == LiveInit /\ [][LiveNext]_vars /\ Fairness

\* a late start on a root that holds the database "a", serving one request thread
DrainInit == Constructed({"a"}, {"t1"}, DrainOps, 0, MaxTime)

\* managers that serve, are dropped and are built again while their workers drain
DrainNext ==
    \/ \E t \in Threads : Request(t)
    \/ \E t \in Threads : Step(t)
    \/ \E e \in Epochs : Worker(e)
    \/ DropManager
    \/ NewManager

DrainFairness ==
    /\ \A t \in Threads : WF_vars(Step(t))
    /\ \A e \in Epochs : WF_vars(Worker(e))

DrainSpec == DrainInit /\ [][DrainNext]_vars /\ DrainFairness

\* the first start, serving open and close with two request threads
RaceInit == Constructed({}, Threads, RaceOps, 0, 1)

\* the steps of open and of close
RaceStep(t) ==
    \/ OpenContains(t)
    \/ OpenPut(t)
    \/ OpenNew(t)
    \/ OpenInsert(t)
    \/ CloseContains(t)
    \/ CloseEvict(t)
    \/ CloseMeta(t)
    \/ CloseSend(t)

\* one manager whose callers only open and close, and its worker
RaceNext ==
    \/ \E t \in Threads : CallOpen(t)
    \/ \E t \in Threads : CallClose(t)
    \/ \E t \in Threads : RaceStep(t)
    \/ \E e \in Epochs : RunDestroy(e)
    \/ \E e \in Epochs : RunRemoveFiles(e)

RaceSpec == RaceInit /\ [][RaceNext]_vars


(* ------------------------------ claims -------------------------------- *)

\* the step thread t takes out of position pc, whatever it leads to
Leaves(t, pc) == th[t].pc = pc /\ th'[t].pc # pc

\* the engine contents behind the Catalogue entry of name
Stored(name) == fs[dbs[name].path].kv

\* a Destroy-Database closure for name is in a queue or being run
Draining(name) ==
    \E e \in Epochs :
        \/ \E i \in 1..Len(queue[e]) :
               queue[e][i].kind = "destroy" /\ queue[e][i].db_name = name
        \/ wk[e].st = "rm" /\ wk[e].job.db_name = name

\* C1: a read(n,k) invoked after store(n,k,p,0) returned Ok, with no remove(n,k), no
\* other store(n,k,..) and no close(n) invoked since and the same manager, returns
\* Some(p), whatever was done to n and k before and however the worker is scheduled
\* (a read whose engine get fails is left aside).
C1_ReadAfterStore ==
    (/\ ret.op = "read" /\ ret.tag # "Rocks"
     /\ ret.pin.set /\ ret.pin.ttl = 0 /\ ret.pin.ep = epoch)
        => (ret.tag = "Some" /\ ret.data = ret.pin.data)

\* C2, as claimed: after store(n,k,p,t) with t > 0 succeeded, read(n,k) at clock time
\* T < t returns Some(p) and at T >= t returns None (a read whose engine get fails
\* or that finds no clock time is left aside).
C2_ReadExpiresAtTtl ==
    (/\ ret.op = "read" /\ ret.tag \notin {"Rocks", "Conversion"}
     /\ ret.pin.set /\ ret.pin.ttl > 0 /\ ret.pin.ep = epoch)
        => IF now < ret.pin.ttl
               THEN ret.tag = "Some" /\ ret.data = ret.pin.data
               ELSE ret.tag = "None"

\* C2, amended: a read(n,k) that finds under k the record store(n,k,p,t), t > 0, wrote
\* returns Some(p) at clock time T <= t and None at T > t (a read whose engine get
\* fails or that finds no clock time is left aside).
C2_ReadExpiresAfterTtl ==
    (/\ ret.op = "read" /\ ret.tag \notin {"Rocks", "Conversion"}
     /\ ret.name \in DOMAIN dbs /\ ret.key \in DOMAIN Stored(ret.name))
        => \A p \in Payloads, ttl \in TTLs \ {0} :
               Stored(ret.name)[ret.key] = as_bytes(ttl, p)
                   => IF now <= ttl
                          THEN ret.tag = "Some" /\ ret.data = p
                          ELSE ret.tag = "None"

\* C2 witness: a read at the very millisecond of the ttl returned the payload
C2_ReadAtTtl ==
    /\ ret.op = "read" /\ ret.tag = "Some"
    /\ ret.pin.set /\ ret.pin.ttl = now /\ ret.data = ret.pin.data

\* no open or close call is in flight
Quiescent == mgr = "up" /\ \A t \in Threads : th[t].op \notin {"open", "close"}

\* C3: at quiescence the names of the Catalogue are the keys of the Meta-Database, and
\* the Meta-Database maps each name n to <root>/n.
C3_CatalogueMatchesMeta ==
    Quiescent => /\ DOMAIN dbs = DOMAIN meta
                 /\ \A n \in DOMAIN meta : meta[n] = db_path(n)

\* C4: a manager constructed on the root of a dropped one contains exactly the names
\* that were opened and not closed, and read returns the payload of the last
\* successful unexpired store made before the drop (a construction that returns the
\* engine's error or panics has built no manager and is left aside, and so is a read
\* whose engine get fails).
C4_RestartPreserves ==
    /\ (ret.op = "new" /\ ret.tag = "Ok") => DOMAIN dbs = opened
    /\ (ret.op = "read" /\ ret.tag # "Rocks" /\ ret.pin.set /\ ret.pin.ep < epoch
            /\ is_expired(ret.pin.ttl, now).ok /\ ~ is_expired(ret.pin.ttl, now).val)
           => (ret.tag = "Some" /\ ret.data = ret.pin.data)

\* an Expire-Key closure for key on the engine at path waits in a queue
ExpirePending(path, key) ==
    \E e \in Epochs : \E i \in 1..Len(queue[e]) :
        /\ queue[e][i].kind = "expire"
        /\ queue[e][i].db.path = path
        /\ queue[e][i].key = key

\* a read that has found a record decides that the record is expired
FindsExpired(t) ==
    /\ Leaves(t, "r_exp")
    /\ as_struct(th[t].val).ok
    /\ is_expired(as_struct(th[t].val).ttl, now).ok
    /\ is_expired(as_struct(th[t].val).ttl, now).val

\* what read sends to the worker for the handle and the key it read
ExpireJob(t) ==
    [kind |-> "expire", db |-> dbs[th[t].name], key |-> th[t].key, db_name |-> "",
     path |-> ""]

\* C5, as claimed: a read that finds a record whose ttl has passed sends an
\* Expire-Key closure for that handle and key, and with the worker scheduled fairly
\* the key is eventually absent from that engine.
C5_ExpiredKeyReclaimed ==
    /\ [][\A t \in Threads :
            FindsExpired(t)
                => /\ ret'.tag = "None"
                   /\ queue'[epoch] = Append(queue[epoch], ExpireJob(t))
                   /\ fs' = fs]_vars
    /\ \A path \in Paths, k \in Keys :
           ExpirePending(path, k) ~> (k \notin DOMAIN fs[path].kv)

\* C5, amended: a read that finds a record whose ttl has passed sends an Expire-Key
\* closure for that handle and key; with the worker scheduled fairly the closure is
\* eventually run; and the run removes the key from that engine unless the engine
\* refuses the delete, in which case the worker logs the error and the record stays.
C5_ExpiredKeyReclaimedUnlessRefused ==
    /\ [][\A t \in Threads :
            FindsExpired(t)
                => /\ ret'.tag = "None"
                   /\ queue'[epoch] = Append(queue[epoch], ExpireJob(t))
                   /\ fs' = fs]_vars
    /\ [][\A e \in Epochs :
            (/\ queue[e] # <<>> /\ Head(queue[e]).kind = "expire"
             /\ queue'[e] = Tail(queue[e]))
                => LET job == Head(queue[e])
                   IN  \/ /\ job.key \notin DOMAIN fs'[job.db.path].kv
                          /\ ~ wk'[e].err
                       \/ /\ fs' = fs
                          /\ wk'[e].err]_vars
    /\ \A path \in Paths, k \in Keys :
           ExpirePending(path, k) ~> ~ ExpirePending(path, k)

\* C5 witness: a read has just found an expired record and handed it to the worker
C5_ExpireSent ==
    /\ ret.op = "read" /\ ret.via = "expire"
    /\ ExpirePending(dbs[ret.name].path, ret.key)
    /\ ret.key \in DOMAIN Stored(ret.name)

\* C6: under any interleaving of the public methods with the worker, every call a
\* request thread has made returns.
C6_EveryCallReturns ==
    \A t \in Threads : (th[t].pc # "idle") ~> (th[t].pc = "idle")

\* C6 witness: a call on a name waits for the Catalogue while a call on the same name
\* holds the Catalogue's write guard
C6_Contended ==
    \E t, u \in Threads :
        /\ t # u
        /\ guard.w = t
        /\ th[u].pc \in {"store", "read", "remove", "close", "open", "contains"}
        /\ th[u].name = th[t].name

\* C7: open(n) that finds n present returns Validation and leaves the Catalogue, the
\* Meta-Database and the queue as they were.
C7_OpenPresentRejected ==
    [][\A t \in Threads :
          (Leaves(t, "open") /\ th[t].name \in DOMAIN dbs)
              => /\ ret'.t = t /\ ret'.tag = "Validation"
                 /\ UNCHANGED <<dbs, meta, queue>>]_vars

\* C7 witness: a second open of a present name was refused
C7_SecondOpenRefused ==
    /\ ret.op = "open" /\ ret.tag = "Validation"
    /\ ret.name \in DOMAIN dbs /\ ret.name \in DOMAIN meta

\* C8, as claimed: close(n) on an absent n returns Validation and changes nothing,
\* the second of two concurrent close(n) included: the one that finds n evicted.
C8_CloseAbsentRejected ==
    [][\A t \in Threads :
          ((Leaves(t, "close") \/ Leaves(t, "c_evict")) /\ th[t].name \notin DOMAIN dbs)
              => /\ ret'.t = t /\ ret'.tag = "Validation"
                 /\ UNCHANGED <<dbs, meta, queue>>]_vars

\* C8, amended: close(n) whose check finds n absent returns Validation and changes
\* nothing; a close(n) whose check found n present and that then finds n evicted by
\* a concurrent close(n) returns Ok, and changes nothing either.
C8_CloseAbsentNoEffect ==
    [][\A t \in Threads :
          /\ (Leaves(t, "close") /\ th[t].name \notin DOMAIN dbs)
                 => /\ ret'.t = t /\ ret'.tag = "Validation"
                    /\ UNCHANGED <<dbs, meta, queue>>
          /\ (Leaves(t, "c_evict") /\ th[t].name \notin DOMAIN dbs)
                 => /\ ret'.t = t /\ ret'.tag = "Ok"
                    /\ UNCHANGED <<dbs, meta, queue>>]_vars

\* C8 witness: the second of two concurrent close(n) has returned, n evicted by the
\* first, whose Destroy-Database closure is queued or running
C8_SecondCloseReturned ==
    /\ ret.op = "close" /\ ret.via = "c_evict"
    /\ ret.name \notin DOMAIN dbs
    /\ Draining(ret.name)

\* C9: read, store and remove on a name that is not in the Catalogue return
\* Validation and change no engine, Catalogue, Meta-Database or queue state.
C9_AbsentNameRejected ==
    [][\A t \in Threads :
          (/\ Leaves(t, "read") \/ Leaves(t, "store") \/ Leaves(t, "remove")
           /\ th[t].name \notin DOMAIN dbs)
              => /\ ret'.t = t /\ ret'.tag = "Validation"
                 /\ UNCHANGED <<dbs, meta, queue, fs>>]_vars

\* C9 witness: a read on a closed and still draining name was refused
C9_ReadWhileDraining ==
    /\ ret.op = "read" /\ ret.tag = "Validation"
    /\ ret.name \notin DOMAIN dbs
    /\ Draining(ret.name)

\* C10: open("root") and open("") return Validation, and "root" is never a key of the
\* Meta-Database nor a name of the Catalogue (an open whose Meta-Database put the
\* engine refuses is left aside).
C10_ReservedNameRejected ==
    /\ ROOT_DB_NAME \notin DOMAIN meta
    /\ ROOT_DB_NAME \notin DOMAIN dbs
    /\ (ret.op = "open" /\ ret.via # "o_put" /\ ret.name \in {ROOT_DB_NAME, ""})
           => ret.tag = "Validation"

\* C11: when close(n) returns Ok, n is in neither the Catalogue nor the
\* Meta-Database, and the Destroy-Database closure of that close has not had to run.
C11_CloseOkRemoved ==
    (ret.op = "close" /\ ret.tag = "Ok")
        => /\ ret.name \notin DOMAIN dbs
           /\ ret.name \notin DOMAIN meta

\* C12: an open(n) made while n is draining (close(n) returned Ok, its
\* Destroy-Database closure is still queued or running) returns Ok and leaves n in
\* the Catalogue and the Meta-Database.  With one caller, an open that returns while
\* n is draining was made while n was draining.
C12_OpenWhileDraining ==
    (ret.op = "open" /\ ret.via # "o_put" /\ Draining(ret.name))
        => /\ ret.tag = "Ok"
           /\ ret.name \in DOMAIN dbs
           /\ ret.name \in DOMAIN meta

\* C13: the compaction filter answers Remove (Discard) for every value that does not
\* decode as a record and for every record with ttl # 0 and ttl < now, Keep for every
\* other record; it answers nothing else, and the same for every level and key.
C13_FilterDecision ==
    ret.op = "compaction_filter"
        => /\ ret.tag \in {"Keep", "Remove"}
           /\ Len(ret.data) < TtlBytes + LenBytes => ret.tag = "Remove"
           /\ ~ as_struct(ret.data).ok => ret.tag = "Remove"
           /\ \A ttl \in FilterTtls, p \in Payloads, rest \in {<<>>, <<9>>} :
                  ret.data = as_bytes(ttl, p) \o rest
                      => ret.tag = IF ttl # 0 /\ ttl < now THEN "Remove" ELSE "Keep"
           /\ \A level \in Levels, key \in FilterKeys :
                  compaction_filter(level, key, ret.data, now) = ret.tag

\* C14: a record is expired exactly when its ttl is not 0 and is less than the time
\* the clock gives, and a record with ttl 0 is not expired whatever the clock shows,
\* a time before the epoch included; is_expired has no answer only for a nonzero
\* ttl and a clock that gives no time.  read returns the payload of a record whose
\* ttl equals the clock or is 0, and None exactly for a record whose nonzero ttl has
\* passed.
C14_StrictExpiry ==
    /\ \A path \in Paths : \A k \in DOMAIN fs[path].kv :
           LET data == as_struct(fs[path].kv[k])
               expired == is_expired(data.ttl, now)
           IN  /\ expired.ok <=> (data.ttl = 0 \/ current_ms(now).ok)
               /\ expired.ok => (expired.val <=> (data.ttl # 0 /\ data.ttl < now))
    /\ (/\ ret.op = "read" /\ ret.tag \in {"Some", "None"}
        /\ ret.name \in DOMAIN dbs /\ ret.key \in DOMAIN Stored(ret.name))
           => LET data == as_struct(Stored(ret.name)[ret.key])
              IN  /\ ret.tag = "None" <=> (data.ttl # 0 /\ data.ttl < now)
                  /\ ret.tag = "Some" => ret.data = data.data

\* C14 witness: with the clock at its last reading, a read returned the payload of a
\* record stored with ttl 0
C14_ZeroTtlOutlivesClock ==
    /\ ret.op = "read" /\ ret.tag = "Some" /\ now = MaxTime
    /\ ret.name \in DOMAIN dbs /\ ret.key \in DOMAIN Stored(ret.name)
    /\ as_struct(Stored(ret.name)[ret.key]).ttl = 0

\* C15: the worker never removes a live record: an Expire-Key closure deletes key k
\* only if the record under k at the moment the closure runs is expired.
C15_WorkerSparesLive ==
    [][\A e \in Epochs :
          (/\ wk[e].st = "idle" /\ queue[e] # <<>> /\ Head(queue[e]).kind = "expire"
           /\ queue'[e] = Tail(queue[e]))
              => LET job == Head(queue[e])
                     kv == fs[job.db.path].kv
                 IN  (job.key \in DOMAIN kv /\ job.key \notin DOMAIN fs'[job.db.path].kv)
                         => /\ as_struct(kv[job.key]).ok
                            /\ is_expired(as_struct(kv[job.key]).ttl, now).ok
                            /\ is_expired(as_struct(kv[job.key]).ttl, now).val]_vars

\* a request thread is about to take the lock of an Engine Handle it found in the
\* Catalogue: db.put in store, db.remove in remove, db.get in read
TakesHandleLock(t) == th[t].pc \in {"s_put", "m_del", "r_get"}

\* C16: in store, read and remove a request thread takes the lock of an Engine Handle
\* while it holds a read guard on the Catalogue, never while it holds the write guard.
C16_HandleLockUnderReadGuard ==
    \A t \in Threads : TakesHandleLock(t) => (t \in guard.r /\ guard.w # t)

\* position of the first `what` in the history log, 0 if it is not there
At(log, what) ==
    IF \E i \in 1..Len(log) : log[i] = what
        THEN CHOOSE i \in 1..Len(log) : log[i] = what /\ \A j \in 1..(i - 1) : log[j] # what
        ELSE 0

\* the histories of the calls in flight and of the call that has just returned
Logs == {th[t].log : t \in Threads} \cup {ret.log}

\* C17, as claimed: in open and in close the write to the Meta-Database is complete
\* before the call changes the Catalogue.
C17_MetaBeforeCatalogue ==
    \A log \in Logs :
        /\ At(log, "insert") # 0 => (At(log, "meta_put") # 0
                                     /\ At(log, "meta_put") < At(log, "insert"))
        /\ At(log, "evict") # 0 => (At(log, "meta_delete") # 0
                                    /\ At(log, "meta_delete") < At(log, "evict"))

\* C17, amended: in open the put into the Meta-Database is complete before the call
\* inserts into the Catalogue; in close the Catalogue is changed first: the delete
\* from the Meta-Database is made only after the call has evicted the name.
C17_MetaBeforeInsertAfterEvict ==
    \A log \in Logs :
        /\ At(log, "insert") # 0 => (At(log, "meta_put") # 0
                                     /\ At(log, "meta_put") < At(log, "insert"))
        /\ At(log, "meta_delete") # 0 => (At(log, "evict") # 0
                                          /\ At(log, "evict") < At(log, "meta_delete"))

\* C17 witness: a close has evicted a name that an open had written to both, and has
\* yet to delete it from the Meta-Database
C17_EvictedBeforeMetaDelete ==
    \E t \in Threads :
        /\ th[t].op = "close" /\ th[t].pc = "c_meta" /\ th[t].log = <<"evict">>
        /\ th[t].name \notin DOMAIN dbs
        /\ th[t].name \in DOMAIN meta
        /\ th[t].name \in opened

\* C18: within one open the put into the Meta-Database precedes the insert into the
\* Catalogue; within one close the eviction precedes the delete from the
\* Meta-Database, which precedes the sending of the Destroy-Database closure.
C18_OrderWithinCall ==
    /\ \A t \in Threads :
           /\ th[t].op = "open"
                  => th[t].log = SubSeq(<<"meta_put", "insert">>, 1, Len(th[t].log))
           /\ th[t].op = "close"
                  => th[t].log = SubSeq(<<"evict", "meta_delete", "enqueue">>, 1,
                                        Len(th[t].log))
    /\ (ret.op = "open" /\ ret.tag = "Ok") => ret.log = <<"meta_put", "insert">>
    /\ (ret.op = "close" /\ ret.via = "c_send")
           => ret.log = <<"evict", "meta_delete", "enqueue">>
    /\ \A t \in Threads :
           /\ th[t].pc = "o_ins" => th[t].log = <<"meta_put">>
           /\ th[t].pc = "c_send" => th[t].log = <<"evict", "meta_delete">>

\* C18 witness: a close has returned after evicting, deleting and sending, in that
\* order, and its closure is the last in the queue
C18_CloseSentLast ==
    /\ ret.op = "close" /\ ret.log = <<"evict", "meta_delete", "enqueue">>
    /\ ret.name \notin DOMAIN dbs /\ ret.name \notin DOMAIN meta
    /\ queue[epoch] # <<>>
    /\ queue[epoch][Len(queue[epoch])].kind = "destroy"
    /\ queue[epoch][Len(queue[epoch])].db_name = ret.name

\* C19: the closure close(n) sends asks the engine to destroy the database at its
\* path <root>/n and then removes the directory tree at that same path.
C19_DestroyOnPath ==
    \A e \in Epochs :
        wk[e].st = "rm"
            => /\ wk[e].job.path = db_path(wk[e].job.db_name)
               /\ wk[e].arg = wk[e].job.path

\* the handles that Destroy-Database closures own, queued or being run
Doomed ==
    UNION {{queue[e][i].db : i \in {j \in 1..Len(queue[e]) : queue[e][j].kind = "destroy"}}
               : e \in Epochs}
    \cup {wk[e].job.db : e \in {x \in Epochs : wk[x].st = "rm"}}

\* C20: every handle in the Catalogue has a live engine: its directory exists and no
\* Destroy-Database closure owns it or works on its path, so the worker never removes
\* the files of a database that is in the Catalogue.
C20_CatalogueHandlesLive ==
    \A n \in DOMAIN dbs :
        /\ fs[dbs[n].path].exists
        /\ dbs[n] \notin Doomed
        /\ \A d \in Doomed : d.path # dbs[n].path

\* C21: an insert into the Catalogue never replaces a binding: however open(n) calls
\* for an absent n interleave, n is absent when one of them inserts it, and no two of
\* them get as far as returning Ok: while one holds an engine for n or has inserted
\* it, no other holds an engine for n.
C21_InsertNeverReplaces ==
    /\ [](\A t \in Threads :
              th[t].pc = "o_ins"
                  => /\ th[t].name \notin DOMAIN dbs
                     /\ \A u \in Threads \ {t} :
                            ~ (th[u].pc = "o_ins" /\ th[u].name = th[t].name))
    /\ [][\A t \in Threads :
              /\ Leaves(t, "o_ins")
                     => /\ th[t].name \notin DOMAIN dbs
                        /\ dbs' = MapPut(dbs, th[t].name, th[t].db)
              /\ (Leaves(t, "o_new") /\ th[t].name \in DOMAIN dbs)
                     => ret'.t = t /\ ret'.tag = "Rocks" /\ UNCHANGED dbs]_vars

\* C21 witness: of two open(n) that both found n absent, one has inserted n and
\* returned Ok and the other has yet to open its engine
C21_RacingOpens ==
    /\ ret.op = "open" /\ ret.tag = "Ok" /\ ret.name \in DOMAIN dbs
    /\ \E u \in Threads :
           /\ th[u].op = "open" /\ th[u].name = ret.name
           /\ th[u].pc \in {"o_put", "o_new"}

\* C22: the worker runs one closure at a time, in the order the closures were sent:
\* a queue changes only by a send at its end or by the worker, between two closures,
\* taking its head; and a closure whose delete, destroy or removal fails does not
\* stop the worker: every queue is drained.
C22_FifoOneAtATime ==
    /\ [][\A e \in Epochs :
              queue'[e] # queue[e]
                  => \/ /\ Len(queue'[e]) = Len(queue[e]) + 1
                        /\ SubSeq(queue'[e], 1, Len(queue[e])) = queue[e]
                        /\ wk' = wk
                     \/ /\ queue[e] # <<>>
                        /\ queue'[e] = Tail(queue[e])
                        /\ wk[e].st = "idle"
                        /\ wk'[e].st \in {"idle", "rm"}
                        /\ wk'[e].st = "rm" => wk'[e].job = Head(queue[e])]_vars
    /\ \A e \in Epochs : (queue[e] # <<>>) ~> (queue[e] = <<>> /\ wk[e].st # "rm")

\* C22 witness: two closures wait in the order they were sent, the first for a key
\* that is still stored
C22_TwoJobsQueued ==
    \E e \in Epochs :
        /\ Len(queue[e]) >= 2
        /\ queue[e][1].kind = "expire"
        /\ queue[e][1].key \in DOMAIN fs[queue[e][1].db.path].kv
        /\ wk[e].st = "idle"


\* C23: a read writes nothing on the request thread: each of its steps leaves the
\* engines, the Catalogue, the Meta-Database and the worker as they are, and leaves
\* the queue as it is unless the record it found decodes and is expired, in which case
\* it appends exactly one Expire-Key closure for the handle and the key it read.
C23_ReadOnlyEnqueues ==
    [][\A t \in Threads :
           (Leaves(t, "read") \/ Leaves(t, "r_get") \/ Leaves(t, "r_exp"))
               => /\ UNCHANGED <<fs, dbs, meta, wk>>
                  /\ IF FindsExpired(t)
                         THEN queue' = [queue EXCEPT ![epoch] = Append(@, ExpireJob(t))]
                         ELSE UNCHANGED queue]_vars

\* C23 witness: a read has just answered None for an expired record, which is still
\* stored and whose Expire-Key closure is the last of the queue
C23_ExpiredStillStored ==
    /\ ret.op = "read" /\ ret.via = "expire"
    /\ ret.name \in DOMAIN dbs
    /\ ret.key \in DOMAIN Stored(ret.name)
    /\ queue[epoch] # <<>>
    /\ queue[epoch][Len(queue[epoch])].kind = "expire"
    /\ queue[epoch][Len(queue[epoch])].key = ret.key


\* C24: an open whose Meta-Database write succeeded and whose engine does not open
\* returns the engine error and leaves the Catalogue, the Meta-Database and the queue
\* as they are; an entry of the Meta-Database is deleted by a close of its name and by
\* nothing else (a construction finds the entries whose files a removal of the root
\* tree has left); and a construction that succeeds has opened the path of every entry
\* of the Meta-Database, in the order of the names and each with a handle of its
\* own; one that aborts does so at the open of one of those paths or, all of them
\* opened, at the start of the worker thread, and leaves the Meta-Database and the
\* directories as they are.
C24_FailedOpenLeavesMeta ==
    /\ [][\A t \in Threads :
              (Leaves(t, "o_new") /\ th'[t].pc # "o_ins")
                  => /\ At(th[t].log, "meta_put") # 0
                     /\ ret'.t = t /\ ret'.op = "open" /\ ret'.tag = "Rocks"
                     /\ UNCHANGED <<dbs, meta, queue>>]_vars
    /\ [][\A n \in DOMAIN meta :
              n \notin DOMAIN meta'
                  => \/ \E t \in Threads : Leaves(t, "c_meta") /\ th[t].name = n
                     \/ /\ epoch' # epoch
                        /\ \/ ~ fs[db_path(ROOT_DB_NAME)].exists
                           \/ n \in fs[db_path(ROOT_DB_NAME)].unlinked]_vars
    /\ [][/\ epoch' # epoch => (meta' = open_root_db /\ dbs' = EmptyMap)
          /\ (mgr = "opening" /\ dbs' # dbs /\ mgr' = "opening")
                 => /\ Pending # <<>>
                    /\ dbs' = MapPut(dbs, Head(Pending),
                                     [path |-> meta[Head(Pending)], id |-> nextId])
                    /\ fs'[meta[Head(Pending)]].exists
          /\ (ret'.op = "new" /\ ret'.tag = "Ok")
                 => /\ DOMAIN dbs' = DOMAIN meta'
                    /\ \A n \in DOMAIN meta' : dbs'[n].path = meta'[n]
          /\ (ret'.op = "new" /\ ret'.tag = "Panic")
                 => /\ mgr = "opening"
                    /\ Pending = <<>> => DOMAIN dbs = DOMAIN meta
                    /\ dbs' = EmptyMap
                    /\ UNCHANGED <<meta, fs>>]_vars

\* C24 witness: an open has just returned the engine error and its name is in the
\* Meta-Database and not in the Catalogue
C24_DanglingEntry ==
    /\ ret.op = "open" /\ ret.tag = "Rocks"
    /\ At(ret.log, "meta_put") # 0
    /\ ret.name \in DOMAIN meta
    /\ ret.name \notin DOMAIN dbs


\* the handles that closures waiting in a queue own, by kind of closure
Queued(kind) ==
    UNION {{queue[e][i].db : i \in {j \in 1..Len(queue[e]) : queue[e][j].kind = kind}}
               : e \in Epochs}

\* the handles held by the Catalogue, by a call between engine open and eviction's
\* send, or by a closure
Handles ==
    Range(dbs) \cup Queued("expire") \cup Doomed
        \cup {th[t].db : t \in {u \in Threads : th[u].pc \in {"o_ins", "c_meta", "c_send"}}}

\* C25: in a queue every Expire-Key closure of a handle stands before the
\* Destroy-Database closure of that handle, and none waits while the worker is
\* destroying the handle; a read sends its closure for a handle that is in the
\* Catalogue and that no Destroy-Database closure owns; and a handle enters the
\* Catalogue only from the open that created it with an identity no handle had
\* before, so a handle that was evicted is never read again.
C25_ExpireBeforeDestroy ==
    /\ [](/\ \A e \in Epochs : \A i, j \in 1..Len(queue[e]) :
                 (/\ queue[e][i].kind = "expire"
                  /\ queue[e][j].kind = "destroy"
                  /\ queue[e][i].db = queue[e][j].db) => i < j
          /\ \A e \in Epochs :
                 wk[e].st = "rm" => wk[e].job.db \notin Queued("expire")
          /\ \A h \in Handles : h.id < nextId)
    /\ [][/\ \A e \in Epochs :
                 (/\ Len(queue'[e]) = Len(queue[e]) + 1
                  /\ queue'[e][Len(queue'[e])].kind = "expire")
                     => /\ queue'[e][Len(queue'[e])].db \in Range(dbs)
                        /\ queue'[e][Len(queue'[e])].db \notin Doomed
          /\ \A h \in Range(dbs') \ Range(dbs) :
                 \/ h.id >= nextId
                 \/ \E t \in Threads :
                        /\ Leaves(t, "o_ins") /\ th[t].db = h
                        /\ h \notin Doomed \cup Queued("expire")
          /\ \A t \in Threads :
                 (Leaves(t, "o_new") /\ th'[t].pc = "o_ins")
                     => th'[t].db.id = nextId /\ nextId' > nextId]_vars

\* C25 witness: the Expire-Key closure and the Destroy-Database closure of one handle
\* wait in the same queue
C25_ExpireAheadOfDestroy ==
    \E e \in Epochs : \E i, j \in 1..Len(queue[e]) :
        /\ i < j
        /\ queue[e][i].kind = "expire"
        /\ queue[e][j].kind = "destroy"
        /\ queue[e][i].db = queue[e][j].db


\* the closes that hold an evicted handle and have not yet sent or failed
Evicting == {t \in Threads : th[t].pc \in {"c_meta", "c_send"}}

\* C26: no two Destroy-Database closures, waiting or being run, own the same handle;
\* a close that holds an evicted handle holds one that is out of the Catalogue, that
\* no closure is destroying and that no other close holds; a step that sends a
\* Destroy-Database closure sends exactly one, and is the last step of the close that
\* evicted the closure's handle; and an eviction takes its handle out of the Catalogue.
C26_OneDestroyPerHandle ==
    /\ [](/\ \A e, f \in Epochs : \A i \in 1..Len(queue[e]), j \in 1..Len(queue[f]) :
                 (/\ queue[e][i].kind = "destroy"
                  /\ queue[f][j].kind = "destroy"
                  /\ queue[e][i].db = queue[f][j].db) => (e = f /\ i = j)
          /\ \A e \in Epochs :
                 wk[e].st = "rm" => wk[e].job.db \notin Queued("destroy")
          /\ \A t \in Evicting :
                 /\ th[t].db \notin Range(dbs) \cup Doomed
                 /\ \A u \in Evicting \ {t} : th[u].db # th[t].db)
    /\ [][/\ \A e \in Epochs :
                 (/\ Len(queue'[e]) > Len(queue[e])
                  /\ queue'[e][Len(queue'[e])].kind = "destroy")
                     => /\ Len(queue'[e]) = Len(queue[e]) + 1
                        /\ \E t \in Threads :
                               /\ Leaves(t, "c_send")
                               /\ At(th[t].log, "evict") # 0
                               /\ queue'[e][Len(queue'[e])].db = th[t].db
                               /\ queue'[e][Len(queue'[e])].db_name = th[t].name
          /\ \A t \in Threads :
                 (Leaves(t, "c_evict") /\ th'[t].pc = "c_meta")
                     => /\ th[t].name \in DOMAIN dbs
                        /\ th'[t].db = dbs[th[t].name]
                        /\ th'[t].db \notin Range(dbs')]_vars

\* C26 witness: of two closes of one name the second has just returned Ok from the
\* eviction that found nothing, while the closure sent by the first is not yet done
C26_SecondCloseFoundNothing ==
    /\ ret.op = "close" /\ ret.via = "c_evict" /\ ret.tag = "Ok"
    /\ Draining(ret.name)


\* C27, as claimed: when the delete inside close fails the close returns the engine
\* error at once, with its name out of the Catalogue and still in the
\* Meta-Database, and with nothing sent.
C27_FailedDeleteKeepsEntry ==
    [][\A t \in Threads :
           (Leaves(t, "c_meta") /\ th'[t].pc # "c_send")
               => /\ ret'.t = t /\ ret'.op = "close" /\ ret'.tag = "Rocks"
                  /\ th[t].name \notin DOMAIN dbs'
                  /\ th[t].name \in DOMAIN meta'
                  /\ UNCHANGED queue
                  /\ th[t].db \notin Doomed']_vars

\* C27, what the failing delete does in every state: the close returns the engine
\* error at once, having evicted the name; it leaves the Meta-Database as it was
\* when the name was evicted, sends nothing and releases the guard; the evicted
\* handle is dropped: no call and no Destroy-Database closure holds it.
C27_FailedDeleteSendsNothing ==
    [][\A t \in Threads :
           (Leaves(t, "c_meta") /\ th'[t].pc # "c_send")
               => /\ ret'.t = t /\ ret'.op = "close" /\ ret'.tag = "Rocks"
                  /\ th'[t].pc = "idle"
                  /\ At(th[t].log, "evict") # 0
                  /\ UNCHANGED <<dbs, meta, queue, wk>>
                  /\ th[t].name \notin DOMAIN dbs
                  /\ guard' = FreeGuard
                  /\ th[t].db \notin Range(dbs') \cup Doomed'
                  /\ \A u \in Threads : th'[u].db # th[t].db]_vars

\* the sender of the queue of epoch e is alive: its manager has not been dropped
SenderAlive(e) == mgr = "up" /\ epoch = e

\* C28: a worker whose sender is alive has not terminated; a worker terminates only
\* when it has no closure in hand, its queue is empty and its sender is dropped; a
\* closure leaves a queue only by being taken by the worker of that queue; and once
\* the sender is dropped the worker runs what is queued and terminates.
C28_DrainsThenTerminates ==
    /\ [](\A e \in Epochs :
              /\ SenderAlive(e) => wk[e].st \in {"idle", "rm"}
              /\ wk[e].st = "term" => queue[e] = <<>>
              /\ wk[e].st = "none" => queue[e] = <<>>)
    /\ [][\A e \in Epochs :
              /\ (wk'[e].st = "term" /\ wk[e].st # "term")
                     => /\ wk[e].st = "idle"
                        /\ queue[e] = <<>>
                        /\ ~ SenderAlive(e)
              /\ Len(queue'[e]) < Len(queue[e])
                     => /\ queue'[e] = Tail(queue[e])
                        /\ wk[e].st = "idle" /\ wk'[e].st \in {"idle", "rm"}]_vars
    /\ \A e \in Epochs :
           (wk[e].st \in {"idle", "rm"} /\ ~ SenderAlive(e))
               ~> (wk[e].st = "term" /\ queue[e] = <<>>)

\* C28 witness: the manager has been dropped while closures wait in its queue
C28_DroppedWithJobs ==
    /\ mgr = "down"
    /\ queue[epoch] # <<>>
    /\ wk[epoch].st = "idle"

====
